---------------------------- MODULE Spec2Model ----------------------------
(***************************************************************************)
(* jsdiff-html: diff(oldContent, newContent) and renderDiffPreview of      *)
(* src/combined.js and src/preview.js, and the diff of src/seperated.js    *)
(* that returns the differences in two lists.                              *)
(*                                                                         *)
(* JavaScript strings are sequences of one-character strings.  A content   *)
(* argument is a record [t, s]: t is "string", "null" or "undefined" and s *)
(* holds the characters of a string.  A parse5 node is a record with the   *)
(* fields the default tree adapter gives it: nodeName and childNodes for   *)
(* the document, nodeName, attrs and childNodes for an element, nodeName   *)
(* and value for a text node.  A path "0/1/2" is the sequence <<0, 1, 2>>  *)
(* of its child indices and the root path "" is <<>>.                      *)
(***************************************************************************)
EXTENDS Naturals, Sequences, FiniteSets, TLC

VARIABLES oldContent, newContent, oldAst, newAst, result, flat, preview, pc

vars == <<oldContent, newContent, oldAst, newAst, result, flat, preview, pc>>

-----------------------------------------------------------------------------
(* Bounds of the checked input sets.                                       *)

\* nodes below <body>, summed over the old and the new tree
MaxNodes == 4
\* characters of a text node's value in the text-node pairs
MaxTextLen == 3
\* attributes of an element in the attribute pairs
MaxAttrs == 2
\* nodes of the markup of one content given to diff
MaxHtmlNodes == 2
\* nodes of the markup of one content given to renderDiffPreview
MaxPreviewNodes == 3

-----------------------------------------------------------------------------
(* JavaScript values and string primitives.                                *)

Str(s) == [t |-> "string", s |-> s]
Null == [t |-> "null", s |-> <<>>]
Undefined == [t |-> "undefined", s |-> <<>>]

IsString(c) == c.t = "string"

\* String(x): what RegExp.prototype.test sees of a non-string argument
JSToString(c) ==
    IF c.t = "string" THEN c.s
    ELSE IF c.t = "null" THEN <<"n", "u", "l", "l">>
    ELSE <<"u", "n", "d", "e", "f", "i", "n", "e", "d">>

\* the characters \s matches
Whitespace == {" ", "\t", "\n", "\r", "\f"}

\* the characters [a-z] matches under the i flag
Letters ==
    {"a", "b", "c", "d", "e", "f", "g", "h", "i", "j", "k", "l", "m",
     "n", "o", "p", "q", "r", "s", "t", "u", "v", "w", "x", "y", "z",
     "A", "B", "C", "D", "E", "F", "G", "H", "I", "J", "K", "L", "M",
     "N", "O", "P", "Q", "R", "S", "T", "U", "V", "W", "X", "Y", "Z"}

RECURSIVE TrimStart(_)
TrimStart(s) ==
    IF s # <<>> /\ Head(s) \in Whitespace THEN TrimStart(Tail(s)) ELSE s

RECURSIVE TrimEnd(_)
TrimEnd(s) ==
    IF s # <<>> /\ s[Len(s)] \in Whitespace
    THEN TrimEnd(SubSeq(s, 1, Len(s) - 1))
    ELSE s

\* String.prototype.trim
trim(s) == TrimEnd(TrimStart(s))

\* first index >= i of s that holds no whitespace, Len(s) + 1 if none
RECURSIVE SkipWhitespace(_, _)
SkipWhitespace(s, i) ==
    IF i <= Len(s) /\ s[i] \in Whitespace THEN SkipWhitespace(s, i + 1) ELSE i

\* html.replace(/>\s+</g, '><') from index i on
RECURSIVE CollapseFrom(_, _)
CollapseFrom(s, i) ==
    IF i > Len(s) THEN <<>>
    ELSE LET j == SkipWhitespace(s, i + 1) IN
         IF s[i] = ">" /\ j > i + 1 /\ j <= Len(s) /\ s[j] = "<"
         THEN <<">", "<">> \o CollapseFrom(s, j + 1)
         ELSE <<s[i]>> \o CollapseFrom(s, i + 1)

normalizeHtml(html) == trim(CollapseFrom(html, 1))

\* /<[a-z][\s\S]*>/i .test(content)
htmlRegexTest(c) ==
    LET s == JSToString(c) IN
    \E i \in 1..Len(s) :
        /\ s[i] = "<"
        /\ i + 1 <= Len(s)
        /\ s[i + 1] \in Letters
        /\ \E j \in (i + 2)..Len(s) : s[j] = ">"

-----------------------------------------------------------------------------
(* Diff.diffChars: a shortest edit script over the characters, its runs of *)
(* equal kind merged into one part each.                                   *)

RECURSIVE LcsLen(_, _)
LcsLen(a, b) ==
    IF a = <<>> \/ b = <<>> THEN 0
    ELSE IF Head(a) = Head(b) THEN 1 + LcsLen(Tail(a), Tail(b))
    ELSE LET x == LcsLen(Tail(a), b)
             y == LcsLen(a, Tail(b))
         IN IF x >= y THEN x ELSE y

Part(v, added, removed) == [value |-> v, added |-> added, removed |-> removed]

\* one part per character
RECURSIVE EditScript(_, _)
EditScript(a, b) ==
    IF a = <<>> /\ b = <<>> THEN <<>>
    ELSE IF a = <<>> THEN <<Part(<<Head(b)>>, TRUE, FALSE)>> \o EditScript(a, Tail(b))
    ELSE IF b = <<>> THEN <<Part(<<Head(a)>>, FALSE, TRUE)>> \o EditScript(Tail(a), b)
    ELSE IF Head(a) = Head(b)
         THEN <<Part(<<Head(a)>>, FALSE, FALSE)>> \o EditScript(Tail(a), Tail(b))
    ELSE IF LcsLen(Tail(a), b) >= LcsLen(a, Tail(b))
         THEN <<Part(<<Head(a)>>, FALSE, TRUE)>> \o EditScript(Tail(a), b)
    ELSE <<Part(<<Head(b)>>, TRUE, FALSE)>> \o EditScript(a, Tail(b))

RECURSIVE MergeParts(_)
MergeParts(ps) ==
    IF Len(ps) < 2 THEN ps
    ELSE IF ps[1].added = ps[2].added /\ ps[1].removed = ps[2].removed
         THEN MergeParts(<<Part(ps[1].value \o ps[2].value, ps[1].added, ps[1].removed)>>
                         \o SubSeq(ps, 3, Len(ps)))
    ELSE <<ps[1]>> \o MergeParts(Tail(ps))

diffChars(oldStr, newStr) == MergeParts(EditScript(oldStr, newStr))

-----------------------------------------------------------------------------
(* parse5 nodes.                                                           *)

TextNode(v) == [nodeName |-> "#text", value |-> v]
Element(tag, attrs, children) ==
    [nodeName |-> tag, attrs |-> attrs, childNodes |-> children]
Attr(name, value) == [name |-> name, value |-> value]

\* oldChildren[i] past the end of the array: undefined
Absent == [nodeName |-> "#undefined"]
IsAbsent(n) == n.nodeName = "#undefined"

\* the document parse5.parse builds around the nodes of the body
Document(bodyChildren) ==
    [nodeName |-> "#document",
     childNodes |-> <<Element("html", <<>>,
                        <<Element("head", <<>>, <<>>),
                          Element("body", <<>>, bodyChildren)>>)>>]

\* node.childNodes || []
ChildNodes(n) == IF "childNodes" \in DOMAIN n THEN n.childNodes ELSE <<>>

\* children[i], i counted from 0
ChildAt(children, i) == IF i < Len(children) THEN children[i + 1] ELSE Absent

HasAttrs(n) == "attrs" \in DOMAIN n

-----------------------------------------------------------------------------
(* compareNodes.  The differences array it pushes to is the sequence it    *)
(* returns; a caller appends it to what was pushed before.                 *)

\* new Map(attrs.map(attr => [attr.name, attr.value])): a repeated key keeps
\* its first place and takes the last value
RECURSIVE MapSet(_, _, _)
MapSet(m, k, v) ==
    IF m = <<>> THEN <<Attr(k, v)>>
    ELSE IF Head(m).name = k THEN <<Attr(k, v)>> \o Tail(m)
    ELSE <<Head(m)>> \o MapSet(Tail(m), k, v)

RECURSIVE AttrMap(_)
AttrMap(attrs) ==
    IF attrs = <<>> THEN <<>>
    ELSE LET n == Len(attrs) IN
         MapSet(AttrMap(SubSeq(attrs, 1, n - 1)), attrs[n].name, attrs[n].value)

MapHas(m, k) == \E i \in 1..Len(m) : m[i].name = k
MapGet(m, k) == m[CHOOSE i \in 1..Len(m) : m[i].name = k].value

\* the child's index alone, the parent's path dropped
ChildPath_indexOnly(path, i) == <<i>>

\* `${path}/${i}`, or String(i) below the root
ChildPath(path, i) == Append(path, i)

\* node: oldNode, whichever side is missing
PresenceDiff_oldSide(oldNode, newNode, path) ==
    <<[type |-> IF IsAbsent(oldNode) THEN "added" ELSE "removed",
       path |-> path,
       node |-> oldNode,
       kind |-> "structural"]>>

\* one side is missing: the present side's subtree, whole
PresenceDiff(oldNode, newNode, path) ==
    <<[type |-> IF IsAbsent(oldNode) THEN "added" ELSE "removed",
       path |-> path,
       node |-> IF IsAbsent(oldNode) THEN newNode ELSE oldNode,
       kind |-> "structural"]>>

\* "Compare tag names for elements"
TagDiffs(oldNode, newNode, path) ==
    IF oldNode.nodeName # newNode.nodeName /\ oldNode.nodeName # "#text"
    THEN <<[type |-> "changed", path |-> path, oldTag |-> oldNode.nodeName,
            newTag |-> newNode.nodeName, kind |-> "structural"]>>
    ELSE <<>>

\* part => ({type: part.added ? 'added' : part.removed ? 'removed' : 'unchanged', ...})
ToChange(part) ==
    [type |-> IF part.added THEN "added"
              ELSE IF part.removed THEN "removed" ELSE "unchanged",
     content |-> part.value]

MapChanges(parts) == [i \in 1..Len(parts) |-> ToChange(parts[i])]

\* the untrimmed values handed to diffChars
TextDiffs_untrimmed(oldNode, newNode, path) ==
    IF oldNode.nodeName = "#text" /\ newNode.nodeName = "#text"
    THEN IF trim(oldNode.value) # trim(newNode.value)
         THEN <<[path |-> path,
                 changes |-> MapChanges(diffChars(oldNode.value, newNode.value)),
                 kind |-> "text"]>>
         ELSE <<>>
    ELSE <<>>

\* "Compare text content"
TextDiffs(oldNode, newNode, path) ==
    IF oldNode.nodeName = "#text" /\ newNode.nodeName = "#text"
    THEN LET oldText == trim(oldNode.value)
             newText == trim(newNode.value)
         IN IF oldText # newText
            THEN <<[path |-> path,
                    changes |-> MapChanges(diffChars(oldText, newText)),
                    kind |-> "text"]>>
            ELSE <<>>
    ELSE <<>>

\* "Check for changed or removed attributes", entries i.. of oldAttrs
RECURSIVE OldAttrDiffs(_, _, _, _)
OldAttrDiffs(oldAttrs, newAttrs, path, i) ==
    IF i > Len(oldAttrs) THEN <<>>
    ELSE LET name == oldAttrs[i].name
             oldValue == oldAttrs[i].value
             here ==
                 IF ~MapHas(newAttrs, name)
                 THEN <<[type |-> "attributeRemoved", path |-> path, name |-> name,
                         oldValue |-> oldValue, kind |-> "structural"]>>
                 ELSE IF MapGet(newAttrs, name) # oldValue
                 THEN <<[type |-> "attributeChanged", path |-> path, name |-> name,
                         oldValue |-> oldValue, newValue |-> MapGet(newAttrs, name),
                         kind |-> "structural"]>>
                 ELSE <<>>
         IN here \o OldAttrDiffs(oldAttrs, newAttrs, path, i + 1)

\* "Check for added attributes", entries i.. of newAttrs
RECURSIVE NewAttrDiffs(_, _, _, _)
NewAttrDiffs(oldAttrs, newAttrs, path, i) ==
    IF i > Len(newAttrs) THEN <<>>
    ELSE LET name == newAttrs[i].name
             here ==
                 IF ~MapHas(oldAttrs, name)
                 THEN <<[type |-> "attributeAdded", path |-> path, name |-> name,
                         value |-> newAttrs[i].value, kind |-> "structural"]>>
                 ELSE <<>>
         IN here \o NewAttrDiffs(oldAttrs, newAttrs, path, i + 1)

\* the added attributes checked before the changed and removed ones
AttrDiffs_newFirst(oldNode, newNode, path) ==
    IF HasAttrs(oldNode) /\ HasAttrs(newNode)
    THEN LET oldAttrs == AttrMap(oldNode.attrs)
             newAttrs == AttrMap(newNode.attrs)
         IN NewAttrDiffs(oldAttrs, newAttrs, path, 1)
            \o OldAttrDiffs(oldAttrs, newAttrs, path, 1)
    ELSE <<>>

\* "Compare attributes"
AttrDiffs(oldNode, newNode, path) ==
    IF HasAttrs(oldNode) /\ HasAttrs(newNode)
    THEN LET oldAttrs == AttrMap(oldNode.attrs)
             newAttrs == AttrMap(newNode.attrs)
         IN OldAttrDiffs(oldAttrs, newAttrs, path, 1)
            \o NewAttrDiffs(oldAttrs, newAttrs, path, 1)
    ELSE <<>>

\* the attributes compared before the tag names and the text
OwnDiffs_attrsFirst(oldNode, newNode, path) ==
    AttrDiffs(oldNode, newNode, path)
    \o TagDiffs(oldNode, newNode, path)
    \o TextDiffs(oldNode, newNode, path)

\* what the node's own checks push, before its children are visited
OwnDiffs(oldNode, newNode, path) ==
    TagDiffs(oldNode, newNode, path)
    \o TextDiffs(oldNode, newNode, path)
    \o AttrDiffs(oldNode, newNode, path)

Max(a, b) == IF a >= b THEN a ELSE b

RECURSIVE compareNodes(_, _, _)
RECURSIVE CompareChildren(_, _, _, _)

\* "Compare children": the loop from index i on
CompareChildren(oldNode, newNode, path, i) ==
    LET oldChildren == ChildNodes(oldNode)
        newChildren == ChildNodes(newNode)
        maxLength == Max(Len(oldChildren), Len(newChildren))
    IN IF i >= maxLength THEN <<>>
       ELSE compareNodes(ChildAt(oldChildren, i), ChildAt(newChildren, i),
                         ChildPath(path, i))
            \o CompareChildren(oldNode, newNode, path, i + 1)

compareNodes(oldNode, newNode, path) ==
    IF IsAbsent(oldNode) \/ IsAbsent(newNode)
    THEN PresenceDiff(oldNode, newNode, path)
    ELSE OwnDiffs(oldNode, newNode, path)
         \o CompareChildren(oldNode, newNode, path, 0)

-----------------------------------------------------------------------------
(* Results.                                                                *)

\* a call that returned
Returned(changed, differences) ==
    [raised |-> FALSE, changed |-> changed, differences |-> differences]

\* a call that threw a TypeError
Raised == [raised |-> TRUE, changed |-> FALSE, differences |-> <<>>]

\* before any call
NoResult == [raised |-> FALSE, changed |-> FALSE, differences |-> <<"none">>]
NoPreview == [raised |-> FALSE, html |-> <<>>]

\* compareHTML from "const differences = []" on, the two trees parsed
CompareAsts(oldTree, newTree) ==
    LET differences == compareNodes(oldTree, newTree, <<>>)
    IN Returned(Len(differences) > 0, differences)

-----------------------------------------------------------------------------
(* src/seperated.js: the same walk, pushing onto two lists.  What a call   *)
(* pushes is a record of the two sequences, structural and text, each in   *)
(* the order of the pushes; the entries carry no kind.                     *)

Pushed(structural, text) == [structural |-> structural, text |-> text]

PushedBoth(a, b) == Pushed(a.structural \o b.structural, a.text \o b.text)

\* one side is missing: pushed onto structuralDifferences
seperated_PresenceDiff(oldNode, newNode, path) ==
    <<[type |-> IF IsAbsent(oldNode) THEN "added" ELSE "removed",
       path |-> path,
       node |-> IF IsAbsent(oldNode) THEN newNode ELSE oldNode]>>

\* a tag change pushed only where neither node is a text node
seperated_TagDiffs_elementsOnly(oldNode, newNode, path) ==
    IF /\ oldNode.nodeName # newNode.nodeName
       /\ oldNode.nodeName # "#text"
       /\ newNode.nodeName # "#text"
    THEN <<[type |-> "changed", path |-> path, oldTag |-> oldNode.nodeName,
            newTag |-> newNode.nodeName]>>
    ELSE <<>>

\* "Compare tag names for elements": pushed onto structuralDifferences
seperated_TagDiffs(oldNode, newNode, path) ==
    IF oldNode.nodeName # newNode.nodeName /\ oldNode.nodeName # "#text"
    THEN <<[type |-> "changed", path |-> path, oldTag |-> oldNode.nodeName,
            newTag |-> newNode.nodeName]>>
    ELSE <<>>

\* "Compare text content": pushed onto textDifferences
seperated_TextDiffs(oldNode, newNode, path) ==
    IF oldNode.nodeName = "#text" /\ newNode.nodeName = "#text"
    THEN LET oldText == trim(oldNode.value)
             newText == trim(newNode.value)
         IN IF oldText # newText
            THEN <<[path |-> path,
                    differences |-> MapChanges(diffChars(oldText, newText))]>>
            ELSE <<>>
    ELSE <<>>

\* "Check for changed or removed attributes", entries i.. of oldAttrs
RECURSIVE seperated_OldAttrDiffs(_, _, _, _)
seperated_OldAttrDiffs(oldAttrs, newAttrs, path, i) ==
    IF i > Len(oldAttrs) THEN <<>>
    ELSE LET name == oldAttrs[i].name
             oldValue == oldAttrs[i].value
             here ==
                 IF ~MapHas(newAttrs, name)
                 THEN <<[type |-> "attributeRemoved", path |-> path,
                         name |-> name, oldValue |-> oldValue]>>
                 ELSE IF MapGet(newAttrs, name) # oldValue
                 THEN <<[type |-> "attributeChanged", path |-> path,
                         name |-> name, oldValue |-> oldValue,
                         newValue |-> MapGet(newAttrs, name)]>>
                 ELSE <<>>
         IN here \o seperated_OldAttrDiffs(oldAttrs, newAttrs, path, i + 1)

\* "Check for added attributes", entries i.. of newAttrs
RECURSIVE seperated_NewAttrDiffs(_, _, _, _)
seperated_NewAttrDiffs(oldAttrs, newAttrs, path, i) ==
    IF i > Len(newAttrs) THEN <<>>
    ELSE LET name == newAttrs[i].name
             here ==
                 IF ~MapHas(oldAttrs, name)
                 THEN <<[type |-> "attributeAdded", path |-> path,
                         name |-> name, value |-> newAttrs[i].value]>>
                 ELSE <<>>
         IN here \o seperated_NewAttrDiffs(oldAttrs, newAttrs, path, i + 1)

\* "Compare attributes": pushed onto structuralDifferences
seperated_AttrDiffs(oldNode, newNode, path) ==
    IF HasAttrs(oldNode) /\ HasAttrs(newNode)
    THEN LET oldAttrs == AttrMap(oldNode.attrs)
             newAttrs == AttrMap(newNode.attrs)
         IN seperated_OldAttrDiffs(oldAttrs, newAttrs, path, 1)
            \o seperated_NewAttrDiffs(oldAttrs, newAttrs, path, 1)
    ELSE <<>>

\* what the node's own checks push, before its children are visited
seperated_OwnDiffs(oldNode, newNode, path) ==
    Pushed(seperated_TagDiffs(oldNode, newNode, path)
               \o seperated_AttrDiffs(oldNode, newNode, path),
           seperated_TextDiffs(oldNode, newNode, path))

RECURSIVE seperated_compareNodes(_, _, _)
RECURSIVE seperated_CompareChildren(_, _, _, _)

\* "Compare children": the loop from index i on
seperated_CompareChildren(oldNode, newNode, path, i) ==
    LET oldChildren == ChildNodes(oldNode)
        newChildren == ChildNodes(newNode)
        maxLength == Max(Len(oldChildren), Len(newChildren))
    IN IF i >= maxLength THEN Pushed(<<>>, <<>>)
       ELSE PushedBoth(
                seperated_compareNodes(ChildAt(oldChildren, i),
                                       ChildAt(newChildren, i),
                                       ChildPath(path, i)),
                seperated_CompareChildren(oldNode, newNode, path, i + 1))

seperated_compareNodes(oldNode, newNode, path) ==
    IF IsAbsent(oldNode) \/ IsAbsent(newNode)
    THEN Pushed(seperated_PresenceDiff(oldNode, newNode, path), <<>>)
    ELSE PushedBoth(seperated_OwnDiffs(oldNode, newNode, path),
                    seperated_CompareChildren(oldNode, newNode, path, 0))

\* a call of the two-list compareHTML that returned
seperated_Returned(changed, structuralDifferences, textDifferences) ==
    [raised |-> FALSE, changed |-> changed,
     structuralDifferences |-> structuralDifferences,
     textDifferences |-> textDifferences]

\* a call that threw a TypeError
seperated_Raised ==
    [raised |-> TRUE, changed |-> FALSE,
     structuralDifferences |-> <<>>, textDifferences |-> <<>>]

\* before any call
NoFlat ==
    [raised |-> FALSE, changed |-> FALSE,
     structuralDifferences |-> <<"none">>, textDifferences |-> <<"none">>]

\* compareHTML from "const structuralDifferences = []" on, the trees parsed
seperated_CompareAsts(oldTree, newTree) ==
    LET pushed == seperated_compareNodes(oldTree, newTree, <<>>)
    IN seperated_Returned(Len(pushed.structural) > 0 \/ Len(pushed.text) > 0,
                          pushed.structural, pushed.text)

-----------------------------------------------------------------------------
(* The trees compareNodes is checked on: documents whose bodies hold text  *)
(* nodes and nested elements, pairs of text nodes, pairs of elements that  *)
(* differ in their attributes.                                             *)

TreeTexts == {<<"x">>, <<"y">>}
TreeElements == {[tag |-> "b", attrs |-> <<>>],
                 [tag |-> "i", attrs |-> <<Attr("c", "1")>>]}

\* parse5 merges adjacent characters into one text node
NoAdjacentTexts(f) ==
    \A i \in 1..(Len(f) - 1) :
        ~(f[i].nodeName = "#text" /\ f[i + 1].nodeName = "#text")

RECURSIVE TreesOf(_)
RECURSIVE ForestsOf(_)

\* the trees of exactly n nodes
TreesOf(n) ==
    (IF n = 1 THEN {TextNode(v) : v \in TreeTexts} ELSE {})
    \cup {Element(e.tag, e.attrs, f) : e \in TreeElements, f \in ForestsOf(n - 1)}

\* the sibling lists of exactly n nodes in all
ForestsOf(n) ==
    IF n = 0 THEN {<<>>}
    ELSE {f \in UNION {{<<t>> \o g : t \in TreesOf(k), g \in ForestsOf(n - k)} :
                        k \in 1..n} : NoAdjacentTexts(f)}

ForestPairs ==
    UNION {UNION {ForestsOf(m) \X ForestsOf(n) : n \in 0..(MaxNodes - m)} :
             m \in 0..MaxNodes}

TextChars == {"a", "b", " "}

RECURSIVE StringsOf(_)
StringsOf(n) ==
    IF n = 0 THEN {<<>>}
    ELSE {Append(s, c) : s \in StringsOf(n - 1), c \in TextChars}

TextValues == UNION {StringsOf(n) : n \in 1..MaxTextLen}

TextPairs ==
    {<<(<<Element("b", <<>>, <<TextNode(a)>>)>>),
       (<<Element("b", <<>>, <<TextNode(b)>>)>>)>> : a \in TextValues, b \in TextValues}

AttrNames == {"c", "d", "e"}
AttrValues == {"1", "2"}

RECURSIVE AttrListsOf(_)
AttrListsOf(n) ==
    IF n = 0 THEN {<<>>}
    ELSE {Append(l, Attr(k, v)) :
            l \in AttrListsOf(n - 1), k \in AttrNames, v \in AttrValues}

\* parse5 drops a repeated attribute name
UniqueNames(l) == \A i, j \in 1..Len(l) : l[i].name = l[j].name => i = j

AttrLists == {l \in UNION {AttrListsOf(n) : n \in 0..MaxAttrs} : UniqueNames(l)}

AttrPairs ==
    {<<(<<Element("b", a, <<>>)>>), (<<Element("b", b, <<>>)>>)>> :
        a \in AttrLists, b \in AttrLists}

NodePairs == ForestPairs \cup TextPairs \cup AttrPairs

-----------------------------------------------------------------------------
(* SpecNodes: compareHTML with its two parsed trees given.                 *)

InitNodes ==
    /\ oldContent = Str(<<>>)
    /\ newContent = Str(<<>>)
    /\ \E p \in NodePairs :
          /\ oldAst = Document(p[1])
          /\ newAst = Document(p[2])
    /\ result = NoResult
    /\ flat = NoFlat
    /\ preview = NoPreview
    /\ pc = "parsed"

CompareNodes ==
    /\ pc = "parsed"
    /\ result' = CompareAsts(oldAst, newAst)
    /\ pc' = "compared"
    /\ UNCHANGED <<oldContent, newContent, oldAst, newAst, flat, preview>>

NextNodes == CompareNodes

SpecNodes == InitNodes /\ [][NextNodes]_vars

-----------------------------------------------------------------------------
(* parse5.parse on the markup the checked contents hold: text, and         *)
(* properly nested elements <n>...</n> of one-letter names without         *)
(* attributes.  Whitespace before the first tag or character is dropped    *)
(* (it comes before the body is opened); every other run of characters     *)
(* becomes one text node of the element that is open.                      *)

\* first index >= i of s that holds "<", Len(s) + 1 if none
RECURSIVE NextTagOpen(_, _)
NextTagOpen(s, i) ==
    IF i <= Len(s) /\ s[i] # "<" THEN NextTagOpen(s, i + 1) ELSE i

\* the sibling nodes that start at index i, up to an end tag or the end
RECURSIVE ParseNodes(_, _)
ParseNodes(s, i) ==
    IF i > Len(s) THEN [nodes |-> <<>>, next |-> i]
    ELSE IF s[i] = "<" /\ i < Len(s) /\ s[i + 1] = "/"
    THEN [nodes |-> <<>>, next |-> i]
    ELSE IF s[i] = "<"
    THEN LET inner == ParseNodes(s, i + 3)
             rest == ParseNodes(s, inner.next + 4)
         IN [nodes |-> <<Element(s[i + 1], <<>>, inner.nodes)>> \o rest.nodes,
             next |-> rest.next]
    ELSE LET j == NextTagOpen(s, i)
             rest == ParseNodes(s, j)
         IN [nodes |-> <<TextNode(SubSeq(s, i, j - 1))>> \o rest.nodes,
             next |-> rest.next]

Parse(html) == Document(ParseNodes(TrimStart(html), 1).nodes)

-----------------------------------------------------------------------------
(* compareHTML, compareText, diff.                                         *)

\* the inputs compared as they are, never normalized
compareHTML_unnormalized(oldHtml, newHtml) ==
    IF ~IsString(oldHtml) \/ ~IsString(newHtml) THEN Raised
    ELSE IF oldHtml.s = newHtml.s THEN Returned(FALSE, <<>>)
    ELSE CompareAsts(Parse(oldHtml.s), Parse(newHtml.s))

\* html.replace throws a TypeError on null and undefined
compareHTML(oldHtml, newHtml) ==
    IF ~IsString(oldHtml) \/ ~IsString(newHtml) THEN Raised
    ELSE LET oldNorm == normalizeHtml(oldHtml.s)
             newNorm == normalizeHtml(newHtml.s)
         IN IF oldNorm = newNorm THEN Returned(FALSE, <<>>)
            ELSE CompareAsts(Parse(oldNorm), Parse(newNorm))

\* diffChars throws a TypeError when it splits null or undefined into characters
compareText(oldText, newText) ==
    IF oldText = newText THEN Returned(FALSE, <<>>)
    ELSE IF ~IsString(oldText) \/ ~IsString(newText) THEN Raised
    ELSE LET charDiffs == diffChars(oldText.s, newText.s)
         IN Returned(\E i \in 1..Len(charDiffs) :
                         charDiffs[i].added \/ charDiffs[i].removed,
                     <<[changes |-> MapChanges(charDiffs), kind |-> "text"]>>)

diff(old, new) ==
    LET isHtml == htmlRegexTest(old) \/ htmlRegexTest(new)
    IN IF isHtml THEN compareHTML(old, new) ELSE compareText(old, new)

-----------------------------------------------------------------------------
(* compareHTML, compareText, diff of src/seperated.js.                     *)

\* html.replace throws a TypeError on null and undefined
seperated_compareHTML(oldHtml, newHtml) ==
    IF ~IsString(oldHtml) \/ ~IsString(newHtml) THEN seperated_Raised
    ELSE LET oldNorm == normalizeHtml(oldHtml.s)
             newNorm == normalizeHtml(newHtml.s)
         IN IF oldNorm = newNorm THEN seperated_Returned(FALSE, <<>>, <<>>)
            ELSE seperated_CompareAsts(Parse(oldNorm), Parse(newNorm))

\* the segments themselves are the differences of a text comparison
seperated_compareText(oldText, newText) ==
    IF oldText = newText
    THEN [raised |-> FALSE, changed |-> FALSE, differences |-> <<>>]
    ELSE IF ~IsString(oldText) \/ ~IsString(newText) THEN seperated_Raised
    ELSE LET differences == diffChars(oldText.s, newText.s)
         IN [raised |-> FALSE,
             changed |-> \E i \in 1..Len(differences) :
                             differences[i].added \/ differences[i].removed,
             differences |-> MapChanges(differences)]

seperated_diff(old, new) ==
    LET isHtml == htmlRegexTest(old) \/ htmlRegexTest(new)
    IN IF isHtml THEN seperated_compareHTML(old, new)
       ELSE seperated_compareText(old, new)

-----------------------------------------------------------------------------
(* renderDiffPreview.  The string it returns is the sequence of the pieces *)
(* its template literals and joins put together: an opening tag, a closing *)
(* tag, a run of text, a <span class="diff-..."> around a segment.         *)

EscapeChar(c) ==
    IF c = "&" THEN <<"&", "a", "m", "p", ";">>
    ELSE IF c = "<" THEN <<"&", "l", "t", ";">>
    ELSE IF c = ">" THEN <<"&", "g", "t", ";">>
    ELSE IF c = "\"" THEN <<"&", "q", "u", "o", "t", ";">>
    ELSE IF c = "'" THEN <<"&", "#", "0", "3", "9", ";">>
    ELSE <<c>>

RECURSIVE escapeHtml(_)
escapeHtml(text) ==
    IF text = <<>> THEN <<>> ELSE EscapeChar(Head(text)) \o escapeHtml(Tail(text))

OpenTag(name, attrs) == [f |-> "open", name |-> name, attrs |-> attrs]
CloseTag(name) == [f |-> "close", name |-> name]
TextRun(chars) == [f |-> "text", s |-> chars]
\* ${oldContent}, put in as it is
RawContent(chars) == [f |-> "raw", s |-> chars]
Span(change) == [f |-> "span", type |-> change.type, s |-> escapeHtml(change.content)]

PreviewOpen == OpenTag("div", <<Attr("class", "diff-preview")>>)
PreviewClose == CloseTag("div")

\* new Map(differences.map(diff => [diff.path, diff])).get(path): the last
\* difference of that path; a difference without a path is kept under undefined
DiffMapHas(differences, path) ==
    \E i \in 1..Len(differences) :
        "path" \in DOMAIN differences[i] /\ differences[i].path = path

DiffMapGet(differences, path) ==
    differences[CHOOSE i \in 1..Len(differences) :
                   /\ "path" \in DOMAIN differences[i]
                   /\ differences[i].path = path
                   /\ \A j \in (i + 1)..Len(differences) :
                         ~("path" \in DOMAIN differences[j]
                           /\ differences[j].path = path)]

\* diff.changes.map(change => `<span class="diff-${change.type}">...</span>`)
RenderChanges(changes) == [i \in 1..Len(changes) |-> Span(changes[i])]

RECURSIVE renderNode(_, _, _)
RECURSIVE RenderChildren(_, _, _, _)

\* (node.childNodes || []).map((child, i) => renderNode(child, ...)).join('')
RenderChildren(node, differences, path, i) ==
    IF i >= Len(ChildNodes(node)) THEN <<>>
    ELSE renderNode(ChildNodes(node)[i + 1], differences, ChildPath(path, i))
         \o RenderChildren(node, differences, path, i + 1)

renderNode(node, differences, path) ==
    IF node.nodeName = "#text"
    THEN IF DiffMapHas(differences, path)
            /\ DiffMapGet(differences, path).kind = "text"
         THEN RenderChanges(DiffMapGet(differences, path).changes)
         ELSE <<TextRun(escapeHtml(node.value))>>
    ELSE IF node.nodeName \in {"#document", "#document-fragment"}
    THEN RenderChildren(node, differences, path, 0)
    ELSE <<OpenTag(node.nodeName, IF HasAttrs(node) THEN node.attrs ELSE <<>>)>>
         \o RenderChildren(node, differences, path, 0)
         \o <<CloseTag(node.nodeName)>>

\* what diff throws, renderDiffPreview throws
PreviewRaised == [raised |-> TRUE, html |-> <<>>]
PreviewOf(pieces) ==
    [raised |-> FALSE, html |-> <<PreviewOpen>> \o pieces \o <<PreviewClose>>]

renderDiffPreview(old, new, res) ==
    IF res.raised THEN PreviewRaised
    ELSE IF ~res.changed THEN PreviewOf(<<RawContent(JSToString(old))>>)
    ELSE PreviewOf(renderNode(Parse(JSToString(new)), res.differences, <<>>))

-----------------------------------------------------------------------------
(* The contents diff and renderDiffPreview are checked on: null, undefined *)
(* and the markup of the sibling lists of up to a number of nodes, written  *)
(* without whitespace, with a space between adjacent tags, or with a space  *)
(* before and after.  The list of no node is the empty string and a list of *)
(* one text node is plain text.                                             *)

HtmlTexts == {<<"x">>, <<"y">>}
HtmlTags == {"b"}

RECURSIVE HtmlTreesOf(_)
RECURSIVE HtmlForestsOf(_)

HtmlTreesOf(n) ==
    (IF n = 1 THEN {TextNode(v) : v \in HtmlTexts} ELSE {})
    \cup {Element(t, <<>>, f) : t \in HtmlTags, f \in HtmlForestsOf(n - 1)}

HtmlForestsOf(n) ==
    IF n = 0 THEN {<<>>}
    ELSE {f \in UNION {{<<t>> \o g : t \in HtmlTreesOf(k), g \in HtmlForestsOf(n - k)} :
                        k \in 1..n} : NoAdjacentTexts(f)}

\* the tags and text runs of the markup of a sibling list, in order
RECURSIVE TokensOf(_)
TokensOf(f) ==
    IF f = <<>> THEN <<>>
    ELSE LET n == Head(f) IN
         (IF n.nodeName = "#text"
          THEN <<[tag |-> FALSE, s |-> n.value]>>
          ELSE <<[tag |-> TRUE, s |-> <<"<", n.nodeName, ">">>]>>
               \o TokensOf(n.childNodes)
               \o <<[tag |-> TRUE, s |-> <<"<", "/", n.nodeName, ">">>]>>)
         \o TokensOf(Tail(f))

\* the tokens joined, gap written between two adjacent tags
RECURSIVE JoinTokens(_, _)
JoinTokens(ts, gap) ==
    IF ts = <<>> THEN <<>>
    ELSE IF Len(ts) = 1 THEN ts[1].s
    ELSE ts[1].s \o (IF ts[1].tag /\ ts[2].tag THEN gap ELSE <<>>)
         \o JoinTokens(Tail(ts), gap)

MarkupsOf(f) ==
    {JoinTokens(TokensOf(f), <<>>),
     JoinTokens(TokensOf(f), <<" ">>),
     <<" ">> \o JoinTokens(TokensOf(f), <<>>) \o <<" ">>}

ContentsUpTo(k) ==
    {Null, Undefined}
    \cup {Str(m) : m \in UNION {MarkupsOf(f) :
                                 f \in UNION {HtmlForestsOf(n) : n \in 0..k}}}

Contents == ContentsUpTo(MaxHtmlNodes)
PreviewContents == ContentsUpTo(MaxPreviewNodes)

-----------------------------------------------------------------------------
(* Spec: one call of diff or of renderDiffPreview on a pair of contents.   *)

InitOn(contents) ==
    /\ oldContent \in contents
    /\ newContent \in contents
    /\ oldAst = Absent
    /\ newAst = Absent
    /\ result = NoResult
    /\ flat = NoFlat
    /\ preview = NoPreview
    /\ pc = "start"

Init == InitOn(Contents)

Diff ==
    /\ pc = "start"
    /\ result' = diff(oldContent, newContent)
    /\ pc' = "diffed"
    /\ UNCHANGED <<oldContent, newContent, oldAst, newAst, flat, preview>>

RenderDiffPreview ==
    /\ pc = "start"
    /\ result' = diff(oldContent, newContent)
    /\ preview' = renderDiffPreview(oldContent, newContent, result')
    /\ pc' = "rendered"
    /\ UNCHANGED <<oldContent, newContent, oldAst, newAst, flat>>

Next == Diff \/ RenderDiffPreview

Spec == Init /\ [][Next]_vars

\* the same calls on the larger contents a shift of paths needs
InitPreview == InitOn(PreviewContents)

SpecPreview == InitPreview /\ [][Next]_vars

-----------------------------------------------------------------------------
(* SpecFlat: the same pair of contents, or of parsed trees, given to the   *)
(* diff of src/combined.js and to the diff of src/seperated.js, in either  *)
(* order.                                                                  *)

InitFlat == InitNodes \/ Init

\* compareHTML of src/seperated.js with its two parsed trees given
seperated_CompareNodes ==
    /\ pc \in {"parsed", "compared"}
    /\ flat = NoFlat
    /\ flat' = seperated_CompareAsts(oldAst, newAst)
    /\ UNCHANGED <<oldContent, newContent, oldAst, newAst, result, preview, pc>>

\* diff of src/seperated.js
seperated_Diff ==
    /\ pc \in {"start", "diffed"}
    /\ flat = NoFlat
    /\ flat' = seperated_diff(oldContent, newContent)
    /\ UNCHANGED <<oldContent, newContent, oldAst, newAst, result, preview, pc>>

NextFlat == CompareNodes \/ seperated_CompareNodes \/ Diff \/ seperated_Diff

SpecFlat == InitFlat /\ [][NextFlat]_vars

-----------------------------------------------------------------------------
(* Vocabulary of the properties of compareNodes.                           *)

Differences == result.differences

Compared == pc = "compared"

\* a text difference carries no type
TypeOf(d) == IF "type" \in DOMAIN d THEN d.type ELSE "undefined"

AttributeTypes == {"attributeRemoved", "attributeChanged", "attributeAdded"}
IsAttributeDiff(d) == TypeOf(d) \in AttributeTypes

Front(p) == SubSeq(p, 1, Len(p) - 1)
Last(p) == p[Len(p)]

\* the node at a path of a tree, Absent where the tree has none
RECURSIVE NodeAt(_, _)
NodeAt(node, p) ==
    IF p = <<>> THEN node
    ELSE IF IsAbsent(node) THEN Absent
    ELSE NodeAt(ChildAt(ChildNodes(node), Head(p)), Tail(p))

\* the paths of the nodes of a tree
RECURSIVE PathsFrom(_, _)
PathsFrom(node, p) ==
    {p} \cup UNION {PathsFrom(ChildNodes(node)[i], Append(p, i - 1)) :
                      i \in 1..Len(ChildNodes(node))}

OldPaths == PathsFrom(oldAst, <<>>)
NewPaths == PathsFrom(newAst, <<>>)

\* the positions at which a pair of nodes is compared: the root, and every
\* child index of a position that holds a node in both trees
ComparedPaths ==
    {p \in OldPaths \cup NewPaths :
        p = <<>> \/ Front(p) \in OldPaths \cap NewPaths}

IsElementNode(n) == HasAttrs(n)
IsTextNode(n) == n.nodeName = "#text"

\* p comes before q in depth-first document order
DocOrderBefore(p, q) ==
    \/ Len(p) < Len(q) /\ SubSeq(q, 1, Len(p)) = p
    \/ \E k \in 1..Len(p) :
          /\ k <= Len(q)
          /\ SubSeq(p, 1, k - 1) = SubSeq(q, 1, k - 1)
          /\ p[k] < q[k]

\* the tree without the child of index k of the node at path pp
RECURSIVE RemoveChild(_, _, _)
RemoveChild(node, pp, k) ==
    IF pp = <<>>
    THEN [node EXCEPT !.childNodes =
             SubSeq(@, 1, k) \o SubSeq(@, k + 2, Len(@))]
    ELSE [node EXCEPT !.childNodes[Head(pp) + 1] = RemoveChild(@, Tail(pp), k)]

\* the new tree is the old tree with one element added as the child at q
AddedElementAt(q) ==
    /\ q \in NewPaths
    /\ q # <<>>
    /\ IsElementNode(NodeAt(newAst, q))
    /\ RemoveChild(newAst, Front(q), Last(q)) = oldAst

AddedDiff(q) ==
    [type |-> "added", path |-> q, node |-> NodeAt(newAst, q), kind |-> "structural"]

RECURSIVE Concat(_)
Concat(ss) == IF ss = <<>> THEN <<>> ELSE Head(ss) \o Concat(Tail(ss))

\* the contents of the segments of the given types, concatenated in order
ContentsOf(changes, types) ==
    LET kept == SelectSeq(changes, LAMBDA c : c.type \in types)
    IN Concat([i \in 1..Len(kept) |-> kept[i].content])

-----------------------------------------------------------------------------
(* Properties of diff and renderDiffPreview.                               *)

Diffed == pc = "diffed"
Rendered == pc = "rendered"

Unchanged == Returned(FALSE, <<>>)

BothStrings == IsString(oldContent) /\ IsString(newContent)

\* the router takes the pair as HTML
IsHtmlPair == htmlRegexTest(oldContent) \/ htmlRegexTest(newContent)

\* null, undefined or the empty string
AbsentOrEmpty(c) == c \in {Null, Undefined, Str(<<>>)}

(* C1.  For every two strings A and B, diff(A, B) and diff(B, A) agree on   *)
(* changed.                                                                 *)
C1_SymmetricDetection ==
    (Diffed /\ BothStrings) =>
        result.changed = diff(newContent, oldContent).changed

(* C2.  diff(X, X) returns changed = false and no differences, and so does  *)
(* diff on two HTML strings that are equal once the whitespace between      *)
(* their tags is collapsed and they are trimmed.                            *)
C2_Idempotence ==
    Diffed =>
        /\ oldContent = newContent => result = Unchanged
        /\ (/\ BothStrings
            /\ IsHtmlPair
            /\ normalizeHtml(oldContent.s) = normalizeHtml(newContent.s))
              => result = Unchanged

\* two different HTML strings, equal once normalized, have been compared
C2_Witness ==
    /\ Diffed
    /\ BothStrings
    /\ IsHtmlPair
    /\ oldContent # newContent
    /\ normalizeHtml(oldContent.s) = normalizeHtml(newContent.s)

(* C3.  diff on two arguments that are each null, undefined or the empty    *)
(* string raises no error and returns changed = false and no differences.   *)
C3_TotalOnAbsentInputs ==
    (Diffed /\ AbsentOrEmpty(oldContent) /\ AbsentOrEmpty(newContent)) =>
        result = Unchanged

(* C5.  When renderDiffPreview finds a pair of HTML strings changed, every  *)
(* text difference diff reports at the path of a text node of the new tree  *)
(* is in the preview as the spans of its segments, in place of the raw text *)
(* of that node.                                                            *)
IsInfix(part, whole) ==
    \E k \in 0..(Len(whole) - Len(part)) :
        SubSeq(whole, k + 1, k + Len(part)) = part

C5_PreviewPathAgreement ==
    (Rendered /\ BothStrings /\ IsHtmlPair /\ result.changed) =>
        \A i \in 1..Len(result.differences) :
            LET d == result.differences[i] IN
            (d.kind = "text"
             /\ NodeAt(Parse(normalizeHtml(newContent.s)), d.path).nodeName = "#text")
                => IsInfix(RenderChanges(d.changes), preview.html)

-----------------------------------------------------------------------------
(* C4.  As stated: whenever the new tree is the old tree with one element   *)
(* added as a sibling, at any index, exactly one difference is reported,    *)
(* it is `added`, and its node is the added subtree.                        *)
C4_AddedSiblingAnywhere ==
    Compared =>
        \A q \in NewPaths :
            AddedElementAt(q) =>
                /\ Len(Differences) = 1
                /\ TypeOf(Differences[1]) = "added"
                /\ Differences[1].node = NodeAt(newAst, q)

(* C4, amended.  Whenever the new tree is the old tree with one element     *)
(* appended after the last child of some node, the differences are exactly  *)
(* one `added` difference at the appended element's path whose node is the  *)
(* whole appended subtree; no descendant of it is reported.                 *)
C4_AppendedSiblingAtomic ==
    Compared =>
        \A q \in NewPaths :
            (AddedElementAt(q) /\ Last(q) = Len(ChildNodes(NodeAt(oldAst, Front(q)))))
                => Differences = <<AddedDiff(q)>>

\* an element with a descendant is appended after an existing sibling
C4_Witness ==
    /\ Compared
    /\ \E q \in NewPaths :
          /\ AddedElementAt(q)
          /\ Last(q) = Len(ChildNodes(NodeAt(oldAst, Front(q))))
          /\ Last(q) > 0
          /\ ChildNodes(NodeAt(newAst, q)) # <<>>

(* C6.  For every text difference, the contents of its unchanged and added  *)
(* segments, in order, make the new node's trimmed text, and the contents   *)
(* of its unchanged and removed segments make the old node's trimmed text.  *)
C6_TextDiffCompleteness ==
    Compared =>
        \A i \in 1..Len(Differences) :
            LET d == Differences[i] IN
            d.kind = "text" =>
                /\ ContentsOf(d.changes, {"unchanged", "added"})
                      = trim(NodeAt(newAst, d.path).value)
                /\ ContentsOf(d.changes, {"unchanged", "removed"})
                      = trim(NodeAt(oldAst, d.path).value)

\* a text difference with all three kinds of segment, one side's value trimmed
C6_Witness ==
    /\ Compared
    /\ \E i \in 1..Len(Differences) :
          LET d == Differences[i] IN
          /\ d.kind = "text"
          /\ {d.changes[k].type : k \in 1..Len(d.changes)}
                = {"unchanged", "added", "removed"}
          /\ trim(NodeAt(newAst, d.path).value) # NodeAt(newAst, d.path).value

(* C7.  As stated: two differences of one path never have the same kind,    *)
(* unless both are attribute differences and name different attributes.     *)
C7_SamePathSameKind ==
    Compared =>
        \A i, j \in 1..Len(Differences) :
            LET d == Differences[i]
                e == Differences[j]
            IN (i # j /\ d.path = e.path /\ d.kind = e.kind)
                  => (IsAttributeDiff(d) /\ IsAttributeDiff(e) /\ d.name # e.name)

(* C7, amended.  Two differences of one path never have the same kind and   *)
(* the same type, unless both are attribute differences and name different  *)
(* attributes.                                                              *)
C7_SamePathSameType ==
    Compared =>
        \A i, j \in 1..Len(Differences) :
            LET d == Differences[i]
                e == Differences[j]
            IN (i # j /\ d.path = e.path /\ d.kind = e.kind /\ TypeOf(d) = TypeOf(e))
                  => (IsAttributeDiff(d) /\ IsAttributeDiff(e) /\ d.name # e.name)

\* one path holds a tag change and an attribute difference, both structural
C7_Witness ==
    /\ Compared
    /\ \E i, j \in 1..Len(Differences) :
          /\ Differences[i].path = Differences[j].path
          /\ TypeOf(Differences[i]) = "changed"
          /\ IsAttributeDiff(Differences[j])

(* C8.  The differences are in depth-first document order of their paths:   *)
(* a node's own differences come as tag change, then text, then attribute   *)
(* differences, all before those of its descendants, and those under a      *)
(* child of lower index before those under a child of higher index.         *)
OwnRank(d) ==
    IF IsAttributeDiff(d) THEN 2 ELSE IF d.kind = "text" THEN 1 ELSE 0

C8_OutputOrdering ==
    Compared =>
        \A i, j \in 1..Len(Differences) :
            LET d == Differences[i]
                e == Differences[j]
            IN i < j =>
                  \/ d.path = e.path /\ OwnRank(d) <= OwnRank(e)
                  \/ DocOrderBefore(d.path, e.path)

\* a tag change, then an attribute difference of the same node, then a
\* difference of one of its descendants
C8_Witness ==
    /\ Compared
    /\ \E i, j, k \in 1..Len(Differences) :
          /\ i < j /\ j < k
          /\ TypeOf(Differences[i]) = "changed"
          /\ IsAttributeDiff(Differences[j])
          /\ Differences[j].path = Differences[i].path
          /\ Len(Differences[i].path) < Len(Differences[k].path)
          /\ SubSeq(Differences[k].path, 1, Len(Differences[i].path))
                = Differences[i].path

(* C9.  At every compared position, a `changed` difference is reported      *)
(* exactly when both nodes are present, neither is a text node, and their   *)
(* tag names differ.                                                        *)
C9_ChangedIffElementTagsDiffer ==
    Compared =>
        \A p \in ComparedPaths :
            LET o == NodeAt(oldAst, p)
                n == NodeAt(newAst, p)
            IN (\E i \in 1..Len(Differences) :
                    Differences[i].path = p /\ TypeOf(Differences[i]) = "changed")
               <=> (/\ ~IsAbsent(o)
                    /\ ~IsAbsent(n)
                    /\ ~IsTextNode(o)
                    /\ ~IsTextNode(n)
                    /\ o.nodeName # n.nodeName)

(* C10.  At every position that compares two elements, the attribute        *)
(* differences are one per differing key: attributeRemoved with the old     *)
(* value for a key of old only, attributeChanged with both values for a key *)
(* of both whose values differ, attributeAdded with the new value for a key *)
(* of new only, none for a key of equal values; those of the old element's  *)
(* keys come first, in its attribute order, then those of the keys of new   *)
(* only, in the new element's attribute order.                              *)
KeysOf(attrs) == {attrs[i].name : i \in 1..Len(attrs)}
ValueOf(attrs, k) == attrs[CHOOSE i \in 1..Len(attrs) : attrs[i].name = k].value
IndexOf(attrs, k) == CHOOSE i \in 1..Len(attrs) : attrs[i].name = k

ExpectedAttrDiff(oldAttrs, newAttrs, p, k) ==
    IF k \notin KeysOf(newAttrs)
    THEN [type |-> "attributeRemoved", path |-> p, name |-> k,
          oldValue |-> ValueOf(oldAttrs, k), kind |-> "structural"]
    ELSE IF k \notin KeysOf(oldAttrs)
    THEN [type |-> "attributeAdded", path |-> p, name |-> k,
          value |-> ValueOf(newAttrs, k), kind |-> "structural"]
    ELSE [type |-> "attributeChanged", path |-> p, name |-> k,
          oldValue |-> ValueOf(oldAttrs, k), newValue |-> ValueOf(newAttrs, k),
          kind |-> "structural"]

DifferingKeys(oldAttrs, newAttrs) ==
    {k \in KeysOf(oldAttrs) \cup KeysOf(newAttrs) :
        \/ k \notin KeysOf(oldAttrs)
        \/ k \notin KeysOf(newAttrs)
        \/ ValueOf(oldAttrs, k) # ValueOf(newAttrs, k)}

\* old keys by their place in old, then the keys of new only by their place in new
KeyRank(oldAttrs, newAttrs, k) ==
    IF k \in KeysOf(oldAttrs) THEN IndexOf(oldAttrs, k)
    ELSE Len(oldAttrs) + IndexOf(newAttrs, k)

C10_AttributeComparison ==
    Compared =>
        \A p \in ComparedPaths :
            LET o == NodeAt(oldAst, p)
                n == NodeAt(newAst, p)
                ad == SelectSeq(Differences,
                                LAMBDA d : d.path = p /\ IsAttributeDiff(d))
            IN (~IsAbsent(o) /\ ~IsAbsent(n) /\ IsElementNode(o) /\ IsElementNode(n)) =>
                  /\ Len(ad) = Cardinality(DifferingKeys(o.attrs, n.attrs))
                  /\ \A k \in DifferingKeys(o.attrs, n.attrs) :
                        \E i \in 1..Len(ad) :
                            ad[i] = ExpectedAttrDiff(o.attrs, n.attrs, p, k)
                  /\ \A i, j \in 1..Len(ad) :
                        i < j => KeyRank(o.attrs, n.attrs, ad[i].name)
                                    < KeyRank(o.attrs, n.attrs, ad[j].name)

\* removed, changed and added attributes at one position, next to an equal one
C10_Witness ==
    /\ Compared
    /\ \E i, j, k \in 1..Len(Differences) :
          /\ i < j /\ j < k
          /\ Differences[i].path = Differences[j].path
          /\ Differences[j].path = Differences[k].path
          /\ {TypeOf(Differences[i]), TypeOf(Differences[j])}
                = {"attributeRemoved", "attributeChanged"}
          /\ TypeOf(Differences[k]) = "attributeAdded"

-----------------------------------------------------------------------------
(* The two-list result of src/seperated.js against the one-list result of  *)
(* src/combined.js.                                                        *)

\* both entry points have compared the state's inputs as HTML
BothCompared ==
    /\ Compared \/ (Diffed /\ IsHtmlPair)
    /\ flat # NoFlat

\* an entry of the one list as the two lists hold it
WithoutKind(d) == [f \in DOMAIN d \ {"kind"} |-> d[f]]

OfKind(differences, kind) == SelectSeq(differences, LAMBDA d : d.kind = kind)

StructuralPart(differences) ==
    LET s == OfKind(differences, "structural")
    IN [i \in 1..Len(s) |-> WithoutKind(s[i])]

\* the path and the segments of every text entry
TextPart(differences) ==
    LET t == OfKind(differences, "text")
    IN [i \in 1..Len(t) |-> [path |-> t[i].path, differences |-> t[i].changes]]

(***************************************************************************)
(* C11.  Whenever both entry points have compared the same inputs as HTML, *)
(* the call of src/seperated.js threw exactly if the call of               *)
(* src/combined.js did, and otherwise its result is the partition by kind  *)
(* of the other: every entry of differences is of kind structural or text, *)
(* structuralDifferences holds the structural entries in their order,      *)
(* textDifferences holds the text entries in their order with the same     *)
(* paths and segments, and changed is the same.                            *)
(***************************************************************************)
C11_FlatIsPartitionByKind ==
    BothCompared =>
        /\ flat.raised = result.raised
        /\ ~result.raised =>
              /\ \A i \in 1..Len(Differences) :
                    Differences[i].kind \in {"structural", "text"}
              /\ flat.structuralDifferences = StructuralPart(Differences)
              /\ flat.textDifferences = TextPart(Differences)
              /\ flat.changed = result.changed

\* a text entry comes before a structural entry in the one list, so that
\* the two lists do not keep the order of the entries across kinds
C11_Witness ==
    /\ BothCompared
    /\ ~result.raised
    /\ flat.structuralDifferences # <<>>
    /\ flat.textDifferences # <<>>
    /\ \E i, j \in 1..Len(Differences) :
          /\ i < j
          /\ Differences[i].kind = "text"
          /\ Differences[j].kind = "structural"

=============================================================================
